---- MODULE Spec2Model ----
(***************************************************************************)
(* local-storage-udev-writer: the reconciliation loop UdevSync.Run, its    *)
(* applyConfig / removeUdevFile / reloadUdev steps, the two ExecInterface  *)
(* variants and the two-stage signal handler of main.go.                   *)
(*                                                                         *)
(* Two goroutines are modelled: the main goroutine running UdevSync.Run    *)
(* (position pc) and the signal-handler goroutine of SetupSignalHandler    *)
(* (position hpc).  The environment rewrites the config file, fires the    *)
(* ticker and sends termination signals.                                   *)
(***************************************************************************)
EXTENDS Naturals, Sequences, FiniteSets, TLC

\* ------------------------------------------------------------------ bounds

\* The environment writes the first MaxCfg + 1 byte sequences, shortest
\* first: <<>>, <<"a">>, <<"b">>, <<"a", "a">>, ...
MaxCfg == 2

\* Longest byte sequences drawn for the needApplyConfig comparison.
MaxCmpLen == 3

\* Most chunks a failed template execution leaves in the rules file.
MaxPartial == 1

\* The byte values config files are made of.
Bytes == {"a", "b"}

\* The node group names (--name) the daemon is started with.
Names == {"pool-a"}

SeqsUpTo(n) == UNION {[1..k -> Bytes] : k \in 0..n}

\* The n-th byte sequence over {"a", "b"}, shortest first.
RECURSIVE Cfg(_)
Cfg(n) ==
  IF n = 0
    THEN <<>>
    ELSE Cfg((n - 1) \div 2) \o <<IF n % 2 = 1 THEN "a" ELSE "b">>

\* The contents the config file takes.
Configs == {Cfg(i) : i \in 0..MaxCfg}

\* A file on disk: <<>> when it does not exist, <<content>> when it does.
NoFile == <<>>
File(content) == <<content>>

\* --------------------------------------------------------- program constants

\* udevFileTemplate, cut at its two substitution points.
TplHead ==
  "\n# Generated file, do not modify!\n\n# Skip non-block devices.\nSUBSYSTEM!=\"block\", GOTO=\"out\"\n\n"
TplGuard ==
  "\n\n# Check if the device was matched by any of the rules above.\nENV{KUBERNETES_STORAGE_CLASS}==\"\", GOTO=\"out\"\n\n# The device matched, create a symlink with stable device name if possible.\nENV{ID_SERIAL}!=\"\", SYMLINK+=\"disk/kubernetes/"
TplSerial ==
  "/$env{KUBERNETES_STORAGE_CLASS}/$env{ID_BUS}-$env{ID_SERIAL}\"\n\n# Fall back to kernel name if stable device name does not exist.\nENV{ID_SERIAL}==\"\", SYMLINK+=\"disk/kubernetes/"
TplKernel ==
  "/$env{KUBERNETES_STORAGE_CLASS}/$kernel\"\n\nLABEL=\"out\"\n"

\* udevTemplate.Execute: the chunks written to the rules file, in order.
\* {{.Rules}} is the config, byte for byte; {{.Name}} occurs twice.
Render(nm, rules) ==
  <<TplHead>> \o rules \o <<TplGuard, nm, TplSerial, nm, TplKernel>>

Min(a, b) == IF a < b THEN a ELSE b

\* What a rules file holds when Execute fails part-way: the file was
\* truncated by O_TRUNC and a strict prefix of the chunks was written
\* (at most MaxPartial chunks of it).
PartialWrites(content) ==
  {SubSeq(content, 1, k) : k \in 0..Min(MaxPartial, Len(content) - 1)}

\* reloadUdev: the command table.
commands ==
  << <<"udevadm", "control", "--reload">>,
     <<"udevadm", "trigger", "--subsystem-match=block">>,
     <<"udevadm", "settle", "--timeout=300">> >>

mountNsPath == "1/ns/mnt"

hostProcDir == "/rootfs/proc"

\* exec.Exec runs cmd itself.
ExecArgv(cmd) == cmd

\* nsenterExec.Exec without the "--" that ends nsenter's own options
\* (a mutation).
NsenterArgv_NoSeparator(dir, cmd) ==
  <<"nsenter", "--mount=" \o dir \o "/" \o mountNsPath>> \o cmd

\* nsenterExec.Exec runs nsenter --mount=<hostProcDir>/1/ns/mnt -- cmd...
NsenterArgv(dir, cmd) ==
  <<"nsenter", "--mount=" \o dir \o "/" \o mountNsPath, "--">> \o cmd

\* ExecInterface.Exec dispatch: the vector handed to os/exec.
RunnerArgv(runner, cmd) ==
  IF runner = "nsenter" THEN NsenterArgv(hostProcDir, cmd) ELSE ExecArgv(cmd)

\* needApplyConfig with lengths only (a mutation of the comparison).
needApplyConfig_LenOnly(cfg, old) == Len(cfg) # Len(old)

\* needApplyConfig that always asks for an apply (a mutation).
needApplyConfig_Always(cfg, old) == TRUE

\* needApplyConfig that takes an empty snapshot for "nothing applied yet"
\* and asks for an apply (a mutation).
needApplyConfig_NilSnapshot(cfg, old) ==
  IF Len(old) = 0 \/ Len(cfg) # Len(old)
    THEN TRUE
    ELSE \E i \in 1..Len(cfg) : cfg[i] # old[i]

\* UdevSync.needApplyConfig: lengths first, then byte by byte.
needApplyConfig(cfg, old) ==
  IF Len(cfg) # Len(old)
    THEN TRUE
    ELSE \E i \in 1..Len(cfg) : cfg[i] # old[i]

\* ------------------------------------------------------------------- state

VARIABLES
  name,              \* UdevSync.name
  exec,              \* UdevSync.exec: "exec" or "nsenter"
  configFile,        \* the config file on disk
  rulesFile,         \* the rules file (artifact) on disk
  oldConfigContent,  \* UdevSync.oldConfigContent
  config,            \* applyConfig's local: the bytes read in the last read
  pc,                \* position of the main goroutine
  cmdIdx,            \* reloadUdev: index of the next command
  caller,            \* reloadUdev's caller: "apply" or "remove"
  outcome,           \* how the last applyConfig / removeUdevFile ended
  wrote,             \* writeRulesFile was called in the current tick
  execLog,           \* Exec calls of the current tick or shutdown
  retry,             \* history: this tick read again the config whose reload
                     \* failed in the tick before it
  rewrite,           \* history: this tick read again the config whose write
                     \* failed in the tick before it
  onlyEmpty,         \* history: every read so far returned no bytes
  tickerC,           \* ticker.C holds a tick
  hpc,               \* position of the signal-handler goroutine
  stopCh,            \* the stop channel is closed
  status             \* "running", "exit0" (main returned), "exit1" (os.Exit(1))

vars ==
  <<name, exec, configFile, rulesFile, oldConfigContent, config, pc, cmdIdx,
    caller, outcome, wrote, execLog, retry, rewrite, onlyEmpty, tickerC, hpc,
    stopCh, status>>

\* Everything the main goroutine owns or changes.
mainVars ==
  <<rulesFile, oldConfigContent, config, pc, cmdIdx, caller, outcome, wrote,
    execLog, retry, rewrite, onlyEmpty>>

fixedVars == <<name, exec>>

sigVars == <<hpc, stopCh>>

Running == status = "running"

\* NewUdevSync + SetupSignalHandler + the state before Run is entered.
Init ==
  /\ name \in Names
  /\ exec \in {"exec", "nsenter"}
  /\ configFile \in {NoFile} \cup {File(c) : c \in Configs}
  /\ rulesFile = NoFile
  /\ oldConfigContent = <<>>
  /\ config = <<>>
  /\ pc = "start"
  /\ cmdIdx = 1
  /\ caller = "apply"
  /\ outcome = "none"
  /\ wrote = FALSE
  /\ execLog = <<>>
  /\ retry = FALSE
  /\ rewrite = FALSE
  /\ onlyEmpty = TRUE
  /\ tickerC = FALSE
  /\ hpc = "wait1"
  /\ stopCh = FALSE
  /\ status = "running"

\* ------------------------------------------------------------ environment

\* The operator (or anything else) rewrites or deletes the config file.
ConfigChange ==
  /\ Running
  /\ \E f \in {NoFile} \cup {File(c) : c \in Configs} :
       /\ f # configFile
       /\ configFile' = f
  /\ UNCHANGED <<fixedVars, mainVars, tickerC, sigVars, status>>

\* time.Ticker: a tick is sent to ticker.C (capacity 1; dropped when full).
TickerFire ==
  /\ Running
  /\ pc # "start"
  /\ ~tickerC
  /\ tickerC' = TRUE
  /\ UNCHANGED <<fixedVars, configFile, mainVars, sigVars, status>>

\* --------------------------------------------------- signal-handler goroutine
\* The goroutine blocks on <-c; a signal is delivered when that receive
\* returns, and the statement after it runs in the same step.

\* First SIGINT/SIGTERM: <-c; close(stop)
FirstSignal ==
  /\ Running
  /\ hpc = "wait1"
  /\ stopCh' = TRUE
  /\ hpc' = "wait2"
  /\ UNCHANGED <<fixedVars, configFile, mainVars, tickerC, status>>

\* The second signal is received but the process is not exited (a mutation).
SecondSignal_NoExit ==
  /\ Running
  /\ hpc = "wait2"
  /\ hpc' = "exit"
  /\ UNCHANGED <<fixedVars, configFile, mainVars, tickerC, stopCh, status>>

\* Second SIGINT/SIGTERM: <-c; os.Exit(1)
SecondSignal ==
  /\ Running
  /\ hpc = "wait2"
  /\ hpc' = "exit"
  /\ status' = "exit1"
  /\ UNCHANGED <<fixedVars, configFile, mainVars, tickerC, stopCh>>

\* ------------------------------------------------- main goroutine: Run

LogEntry(k, ok) ==
  [cmd |-> commands[k], argv |-> RunnerArgv(exec, commands[k]), ok |-> ok]

\* Run enters its loop without the applyConfig call before it (a mutation).
RunStart_SkipsTick ==
  /\ Running
  /\ pc = "start"
  /\ pc' = "select"
  /\ wrote' = FALSE
  /\ execLog' = <<>>
  /\ retry' = FALSE
  /\ rewrite' = FALSE
  /\ UNCHANGED <<fixedVars, onlyEmpty, configFile, rulesFile,
                 oldConfigContent, config,
                 cmdIdx, caller, outcome, tickerC, sigVars, status>>

\* Run: NewTicker, then the immediate applyConfig before the loop.
RunStart ==
  /\ Running
  /\ pc = "start"
  /\ pc' = "read"
  /\ wrote' = FALSE
  /\ execLog' = <<>>
  /\ retry' = FALSE
  /\ rewrite' = FALSE
  /\ UNCHANGED <<fixedVars, onlyEmpty, configFile, rulesFile,
                 oldConfigContent, config,
                 cmdIdx, caller, outcome, tickerC, sigVars, status>>

\* The ticker case is taken although ticker.C holds no tick (a mutation).
SelectTick_NoTick ==
  /\ Running
  /\ pc = "select"
  /\ tickerC' = FALSE
  /\ pc' = "read"
  /\ wrote' = FALSE
  /\ execLog' = <<>>
  /\ retry' = FALSE
  /\ rewrite' = FALSE
  /\ UNCHANGED <<fixedVars, onlyEmpty, configFile, rulesFile,
                 oldConfigContent, config,
                 cmdIdx, caller, outcome, sigVars, status>>

\* select, case <-ticker.C: applyConfig is called.
SelectTick ==
  /\ Running
  /\ pc = "select"
  /\ tickerC
  /\ tickerC' = FALSE
  /\ pc' = "read"
  /\ wrote' = FALSE
  /\ execLog' = <<>>
  /\ retry' = FALSE
  /\ rewrite' = FALSE
  /\ UNCHANGED <<fixedVars, onlyEmpty, configFile, rulesFile,
                 oldConfigContent, config,
                 cmdIdx, caller, outcome, sigVars, status>>

\* The stop case is taken wherever applyConfig is, not only at the select
\* (a mutation).
SelectStop_Interrupts ==
  /\ Running
  /\ pc \in {"select", "compare", "write", "reload", "update"}
  /\ stopCh
  /\ pc' = "remove"
  /\ wrote' = FALSE
  /\ execLog' = <<>>
  /\ retry' = FALSE
  /\ rewrite' = FALSE
  /\ UNCHANGED <<fixedVars, onlyEmpty, configFile, rulesFile,
                 oldConfigContent, config,
                 cmdIdx, caller, outcome, tickerC, sigVars, status>>

\* select, case <-stopCh: removeUdevFile is called.
SelectStop ==
  /\ Running
  /\ pc = "select"
  /\ stopCh
  /\ pc' = "remove"
  /\ wrote' = FALSE
  /\ execLog' = <<>>
  /\ retry' = FALSE
  /\ rewrite' = FALSE
  /\ UNCHANGED <<fixedVars, onlyEmpty, configFile, rulesFile,
                 oldConfigContent, config,
                 cmdIdx, caller, outcome, tickerC, sigVars, status>>

\* ------------------------------------------------------------ applyConfig

\* ioutil.ReadFile succeeds.
ReadOk ==
  /\ Running
  /\ pc = "read"
  /\ configFile # NoFile
  /\ config' = configFile[1]
  /\ retry' = (outcome = "reloaderr" /\ configFile[1] = config)
  /\ rewrite' = (outcome = "writeerr" /\ configFile[1] = config)
  /\ onlyEmpty' = (onlyEmpty /\ configFile[1] = <<>>)
  /\ pc' = "compare"
  /\ UNCHANGED <<fixedVars, configFile, rulesFile, oldConfigContent, cmdIdx,
                 caller, outcome, wrote, execLog, tickerC, sigVars, status>>

\* A failed read forgets the snapshot and truncates the rules file (a mutation).
ReadFail_Resets ==
  /\ Running
  /\ pc = "read"
  /\ oldConfigContent' = <<>>
  /\ rulesFile' = IF rulesFile = NoFile THEN NoFile ELSE File(<<>>)
  /\ outcome' = "readerr"
  /\ pc' = "select"
  /\ UNCHANGED <<fixedVars, retry, rewrite, onlyEmpty,
                 configFile, config, cmdIdx, caller, wrote,
                 execLog, tickerC, sigVars, status>>

\* ioutil.ReadFile fails (file missing, permission denied, I/O error):
\* applyConfig returns the error.
ReadFail ==
  /\ Running
  /\ pc = "read"
  /\ outcome' = "readerr"
  /\ pc' = "select"
  /\ UNCHANGED <<fixedVars, retry, rewrite, onlyEmpty,
                 configFile, rulesFile, oldConfigContent, config,
                 cmdIdx, caller, wrote, execLog, tickerC, sigVars, status>>

\* A detected change goes straight to the reload, skipping the write
\* (a mutation).
NeedApply_SkipWrite ==
  /\ Running
  /\ pc = "compare"
  /\ needApplyConfig(config, oldConfigContent)
  /\ pc' = "reload"
  /\ cmdIdx' = 1
  /\ caller' = "apply"
  /\ UNCHANGED <<fixedVars, retry, rewrite, onlyEmpty,
                 configFile, rulesFile, oldConfigContent, config,
                 outcome, wrote, execLog, tickerC, sigVars, status>>

\* needApplyConfig(config) is true: go on to writeRulesFile.
NeedApply ==
  /\ Running
  /\ pc = "compare"
  /\ needApplyConfig(config, oldConfigContent)
  /\ pc' = "write"
  /\ UNCHANGED <<fixedVars, retry, rewrite, onlyEmpty,
                 configFile, rulesFile, oldConfigContent, config,
                 cmdIdx, caller, outcome, wrote, execLog, tickerC, sigVars,
                 status>>

\* needApplyConfig(config) is false: "no change detected", return nil.
NoChange ==
  /\ Running
  /\ pc = "compare"
  /\ ~needApplyConfig(config, oldConfigContent)
  /\ outcome' = "skipped"
  /\ pc' = "select"
  /\ UNCHANGED <<fixedVars, retry, rewrite, onlyEmpty,
                 configFile, rulesFile, oldConfigContent, config,
                 cmdIdx, caller, wrote, execLog, tickerC, sigVars, status>>

\* The file is opened without O_TRUNC semantics: the rendering is added to
\* what the file already held (a mutation).
WriteOk_NoTrunc ==
  /\ Running
  /\ pc = "write"
  /\ wrote' = TRUE
  /\ rulesFile' = IF rulesFile = NoFile
                    THEN File(Render(name, config))
                    ELSE File(rulesFile[1] \o Render(name, config))
  /\ pc' = "reload"
  /\ cmdIdx' = 1
  /\ caller' = "apply"
  /\ UNCHANGED <<fixedVars, retry, rewrite, onlyEmpty,
                 configFile, oldConfigContent, config, outcome,
                 execLog, tickerC, sigVars, status>>

\* writeRulesFile succeeds: the file is created or truncated and holds the
\* rendered template; applyConfig goes on to reloadUdev.
WriteOk ==
  /\ Running
  /\ pc = "write"
  /\ wrote' = TRUE
  /\ rulesFile' = File(Render(name, config))
  /\ pc' = "reload"
  /\ cmdIdx' = 1
  /\ caller' = "apply"
  /\ UNCHANGED <<fixedVars, retry, rewrite, onlyEmpty,
                 configFile, oldConfigContent, config, outcome,
                 execLog, tickerC, sigVars, status>>

\* A failed write is logged and the reload is run all the same (a mutation).
WriteFail_Reloads ==
  /\ Running
  /\ pc = "write"
  /\ wrote' = TRUE
  /\ \/ rulesFile' = rulesFile
     \/ \E part \in PartialWrites(Render(name, config)) :
          rulesFile' = File(part)
  /\ pc' = "reload"
  /\ cmdIdx' = 1
  /\ caller' = "apply"
  /\ UNCHANGED <<fixedVars, retry, rewrite, onlyEmpty,
                 configFile, oldConfigContent, config, outcome,
                 execLog, tickerC, sigVars, status>>

\* writeRulesFile fails: either os.OpenFile fails and the file is untouched,
\* or Execute fails after the truncation; applyConfig returns the error.
WriteFail ==
  /\ Running
  /\ pc = "write"
  /\ wrote' = TRUE
  /\ \/ rulesFile' = rulesFile
     \/ \E part \in PartialWrites(Render(name, config)) :
          rulesFile' = File(part)
  /\ outcome' = "writeerr"
  /\ pc' = "select"
  /\ UNCHANGED <<fixedVars, retry, rewrite, onlyEmpty,
                 configFile, oldConfigContent, config, cmdIdx,
                 caller, execLog, tickerC, sigVars, status>>

\* The snapshot is taken from the config file as it is now, not from the
\* bytes that were applied (a mutation).
UpdateOld_Rereads ==
  /\ Running
  /\ pc = "update"
  /\ oldConfigContent' = IF configFile # NoFile THEN configFile[1] ELSE config
  /\ outcome' = "applied"
  /\ pc' = "select"
  /\ UNCHANGED <<fixedVars, retry, rewrite, onlyEmpty,
                 configFile, rulesFile, config, cmdIdx, caller,
                 wrote, execLog, tickerC, sigVars, status>>

\* u.oldConfigContent = config; "configuration applied"; return nil.
UpdateOld ==
  /\ Running
  /\ pc = "update"
  /\ oldConfigContent' = config
  /\ outcome' = "applied"
  /\ pc' = "select"
  /\ UNCHANGED <<fixedVars, retry, rewrite, onlyEmpty,
                 configFile, rulesFile, config, cmdIdx, caller,
                 wrote, execLog, tickerC, sigVars, status>>

\* ------------------------------------------------------------- reloadUdev

\* A failed command is logged and the loop goes on to the next one (a mutation).
ExecFail_Continues ==
  /\ Running
  /\ pc = "reload"
  /\ execLog' = Append(execLog, LogEntry(cmdIdx, FALSE))
  /\ IF cmdIdx < Len(commands)
       THEN /\ cmdIdx' = cmdIdx + 1
            /\ UNCHANGED <<pc, outcome>>
       ELSE /\ cmdIdx' = cmdIdx
            /\ pc' = IF caller = "apply" THEN "select" ELSE "returned"
            /\ outcome' = IF caller = "apply" THEN "reloaderr"
                                              ELSE "removed-reloaderr"
  /\ UNCHANGED <<fixedVars, retry, rewrite, onlyEmpty,
                 configFile, rulesFile, oldConfigContent, config,
                 caller, wrote, tickerC, sigVars, status>>

\* The snapshot is updated although the reload failed (a mutation).
ExecFail_UpdatesOld ==
  /\ Running
  /\ pc = "reload"
  /\ execLog' = Append(execLog, LogEntry(cmdIdx, FALSE))
  /\ oldConfigContent' = IF caller = "apply" THEN config ELSE oldConfigContent
  /\ pc' = IF caller = "apply" THEN "select" ELSE "returned"
  /\ outcome' = IF caller = "apply" THEN "reloaderr" ELSE "removed-reloaderr"
  /\ UNCHANGED <<fixedVars, retry, rewrite, onlyEmpty,
                 configFile, rulesFile, config, cmdIdx, caller,
                 wrote, tickerC, sigVars, status>>

\* u.exec.Exec(cmd) succeeds: next command, or return nil after the last.
\* In applyConfig the caller goes on to the snapshot update; in
\* removeUdevFile it logs "udev reloaded" and Run returns.
ExecOk ==
  /\ Running
  /\ pc = "reload"
  /\ execLog' = Append(execLog, LogEntry(cmdIdx, TRUE))
  /\ IF cmdIdx < Len(commands)
       THEN /\ cmdIdx' = cmdIdx + 1
            /\ UNCHANGED <<pc, outcome>>
       ELSE /\ cmdIdx' = cmdIdx
            /\ pc' = IF caller = "apply" THEN "update" ELSE "returned"
            /\ outcome' = IF caller = "apply" THEN outcome
                                              ELSE "removed-reloaded"
  /\ UNCHANGED <<fixedVars, retry, rewrite, onlyEmpty,
                 configFile, rulesFile, oldConfigContent, config,
                 caller, wrote, tickerC, sigVars, status>>

\* u.exec.Exec(cmd) fails: reloadUdev returns the error at once.
\* applyConfig returns "failed to reload udev rules"; removeUdevFile logs
\* "error reloading udev" and Run returns.
ExecFail ==
  /\ Running
  /\ pc = "reload"
  /\ execLog' = Append(execLog, LogEntry(cmdIdx, FALSE))
  /\ pc' = IF caller = "apply" THEN "select" ELSE "returned"
  /\ outcome' = IF caller = "apply" THEN "reloaderr" ELSE "removed-reloaderr"
  /\ UNCHANGED <<fixedVars, retry, rewrite, onlyEmpty,
                 configFile, rulesFile, oldConfigContent, config,
                 cmdIdx, caller, wrote, tickerC, sigVars, status>>

\* --------------------------------------------------------- removeUdevFile

\* The reload is started while the rules file is still there (a mutation).
RemoveOk_KeepsFile ==
  /\ Running
  /\ pc = "remove"
  /\ rulesFile # NoFile
  /\ pc' = "reload"
  /\ cmdIdx' = 1
  /\ caller' = "remove"
  /\ UNCHANGED <<fixedVars, retry, rewrite, onlyEmpty,
                 configFile, rulesFile, oldConfigContent, config,
                 outcome, wrote, execLog, tickerC, sigVars, status>>

\* os.Remove succeeds: the file is gone; go on to reloadUdev.
RemoveOk ==
  /\ Running
  /\ pc = "remove"
  /\ rulesFile # NoFile
  /\ rulesFile' = NoFile
  /\ pc' = "reload"
  /\ cmdIdx' = 1
  /\ caller' = "remove"
  /\ UNCHANGED <<fixedVars, retry, rewrite, onlyEmpty,
                 configFile, oldConfigContent, config, outcome,
                 wrote, execLog, tickerC, sigVars, status>>

\* A failed removal is logged and the reload is run all the same (a mutation).
RemoveFail_Reloads ==
  /\ Running
  /\ pc = "remove"
  /\ pc' = "reload"
  /\ cmdIdx' = 1
  /\ caller' = "remove"
  /\ UNCHANGED <<fixedVars, retry, rewrite, onlyEmpty,
                 configFile, rulesFile, oldConfigContent, config,
                 outcome, wrote, execLog, tickerC, sigVars, status>>

\* After a failed removal Run goes round its loop again (a mutation).
RemoveFail_BackToLoop ==
  /\ Running
  /\ pc = "remove"
  /\ outcome' = "removeerr"
  /\ pc' = "select"
  /\ UNCHANGED <<fixedVars, retry, rewrite, onlyEmpty,
                 configFile, rulesFile, oldConfigContent, config,
                 cmdIdx, caller, wrote, execLog, tickerC, sigVars, status>>

\* os.Remove fails (no such file, or permission denied): the error is
\* logged and removeUdevFile returns at once, so Run returns.
RemoveFail ==
  /\ Running
  /\ pc = "remove"
  /\ outcome' = "removeerr"
  /\ pc' = "returned"
  /\ UNCHANGED <<fixedVars, retry, rewrite, onlyEmpty,
                 configFile, rulesFile, oldConfigContent, config,
                 cmdIdx, caller, wrote, execLog, tickerC, sigVars, status>>

\* u.Run returned: main returns and the process exits with status 0.
MainReturn ==
  /\ Running
  /\ pc = "returned"
  /\ status' = "exit0"
  /\ UNCHANGED <<fixedVars, configFile, mainVars, tickerC, sigVars>>

\* --------------------------------------------------------- specifications

Next ==
  \/ ConfigChange
  \/ TickerFire
  \/ FirstSignal
  \/ SecondSignal
  \/ RunStart
  \/ SelectTick
  \/ SelectStop
  \/ ReadOk
  \/ ReadFail
  \/ NeedApply
  \/ NoChange
  \/ WriteOk
  \/ WriteFail
  \/ UpdateOld
  \/ ExecOk
  \/ ExecFail
  \/ RemoveOk
  \/ RemoveFail
  \/ MainReturn

Spec == Init /\ [][Next]_vars

\* The steps of the main goroutine.
MainStep ==
  \/ RunStart
  \/ SelectTick
  \/ SelectStop
  \/ ReadOk
  \/ ReadFail
  \/ NeedApply
  \/ NoChange
  \/ WriteOk
  \/ WriteFail
  \/ UpdateOld
  \/ ExecOk
  \/ ExecFail
  \/ RemoveOk
  \/ RemoveFail
  \/ MainReturn

\* The main goroutine keeps running (file operations and external commands
\* return), the ticker keeps firing, and the select, which picks among its
\* ready cases uniformly at random, does not pass over the stop case for
\* ever.
FairSpec ==
  /\ Spec
  /\ WF_vars(MainStep)
  /\ WF_vars(TickerFire)
  /\ SF_vars(SelectStop)

\* The comparison alone: applyConfig at its needApplyConfig call, for every
\* pair of read bytes and snapshot up to MaxCmpLen.
InitCmp ==
  /\ name \in Names
  /\ exec = "exec"
  /\ config \in SeqsUpTo(MaxCmpLen)
  /\ oldConfigContent \in SeqsUpTo(MaxCmpLen)
  /\ configFile = File(config)
  /\ rulesFile = NoFile
  /\ pc = "compare"
  /\ cmdIdx = 1
  /\ caller = "apply"
  /\ outcome = "none"
  /\ wrote = FALSE
  /\ execLog = <<>>
  /\ retry = FALSE
  /\ rewrite = FALSE
  /\ onlyEmpty = TRUE
  /\ tickerC = FALSE
  /\ hpc = "wait1"
  /\ stopCh = FALSE
  /\ status = "running"

NextCmp ==
  \/ NeedApply
  \/ NoChange

SpecCmp == InitCmp /\ [][NextCmp]_vars

\* ------------------------------------------------------------ properties

\* The positions inside applyConfig.
TickPcs == {"read", "compare", "write", "reload", "update"}

InApply == pc \in {"read", "compare", "write", "update"}
             \/ (pc = "reload" /\ caller = "apply")

\* The log holds one reload sequence: the commands of the table in order,
\* each one after the success of the one before it.
OneSequence(log) ==
  /\ Len(log) <= Len(commands)
  /\ \A i \in 1..Len(log) :
       /\ log[i].cmd = commands[i]
       /\ i < Len(log) => log[i].ok

AllOk(log) ==
  /\ Len(log) = Len(commands)
  /\ \A i \in 1..Len(log) : log[i].cmd = commands[i] /\ log[i].ok

\* C1: oldConfigContent changes only at the end of a tick that read the new
\* value from the config file, wrote the rules file for it and ran all three
\* reload commands with success; a tick that ends with a read, write or
\* reload error leaves oldConfigContent as it was.
C1_SnapshotOnlyAfterFullApply ==
  /\ [][oldConfigContent' # oldConfigContent =>
          /\ pc = "update"
          /\ oldConfigContent' = config
          /\ wrote
          /\ rulesFile = File(Render(name, config))
          /\ AllOk(execLog)
          /\ outcome' = "applied"]_vars
  /\ [][config' # config => (pc = "read" /\ config' = configFile[1])]_vars
  /\ [][(InApply /\ pc' = "select"
           /\ outcome' \in {"readerr", "writeerr", "reloaderr"})
          => oldConfigContent' = oldConfigContent]_vars

\* A tick has ended with a full apply of a non-empty config.
C1_Witness ==
  /\ pc = "select"
  /\ outcome = "applied"
  /\ oldConfigContent # <<>>
  /\ oldConfigContent = config

\* C2: a reload command that fails during applyConfig leaves
\* oldConfigContent unchanged, and the next tick, when it reads the same
\* config again, goes on to writeRulesFile, writes the rendered file again
\* and starts reloadUdev again at its first command.
C2_ReloadFailureRetried ==
  /\ [][(pc = "reload" /\ caller = "apply" /\ Len(execLog') > Len(execLog)
           /\ ~execLog'[Len(execLog')].ok)
          => /\ oldConfigContent' = oldConfigContent
             /\ outcome' = "reloaderr"
             /\ pc' = "select"]_vars
  /\ [][(retry /\ pc = "compare" /\ pc' # pc) => pc' = "write"]_vars
  /\ [][(retry /\ pc = "write" /\ pc' = "reload")
          => /\ rulesFile' = File(Render(name, config))
             /\ cmdIdx' = 1
             /\ execLog' = <<>>]_vars
  /\ [][(retry /\ pc = "reload" /\ execLog = <<>> /\ execLog' # execLog)
          => execLog'[1].cmd = commands[1]]_vars

\* The tick after a failed reload read the same config, wrote the file again
\* and has run the first reload command again.
C2_Witness ==
  /\ retry
  /\ pc = "reload"
  /\ rulesFile = File(Render(name, config))
  /\ Len(execLog) = 1
  /\ execLog[1].cmd = commands[1]

C4_ReloadOrderFailFast ==
  /\ OneSequence(execLog)
  /\ (execLog # <<>> /\ ~execLog[Len(execLog)].ok)
       => /\ pc \in {"select", "returned"}
          /\ outcome = (IF caller = "apply" THEN "reloaderr"
                                            ELSE "removed-reloaderr")
  /\ pc = "reload" => cmdIdx = Len(execLog) + 1

\* The shutdown's reload sequence failed at its second command.
C4_Witness ==
  /\ caller = "remove"
  /\ Len(execLog) = 2
  /\ ~execLog[2].ok
  /\ pc = "returned"

\* C5: needApplyConfig(a, b) is true exactly when a and b differ, in length
\* or at some position, and applyConfig goes on to the write exactly then.
C5_NeedApplyIffDifferent ==
  /\ pc = "compare"
       => (needApplyConfig(config, oldConfigContent)
             <=> config # oldConfigContent)
  /\ pc = "write" => config # oldConfigContent
  /\ pc = "select" => config = oldConfigContent

\* Two sequences of the same length that differ at the last position only
\* were found different.
C5_Witness ==
  /\ pc = "write"
  /\ Len(config) = MaxCmpLen
  /\ Len(oldConfigContent) = MaxCmpLen
  /\ \A i \in 1..(MaxCmpLen - 1) : config[i] = oldConfigContent[i]

\* C6: when Run has returned after a successful removal, the rules file does
\* not exist and the commands run since the last applyConfig are exactly one
\* reload sequence, which was started after the removal.
C6_ShutdownRemovesThenReloadsOnce ==
  /\ (pc = "reload" /\ caller = "remove") => rulesFile = NoFile
  /\ (pc = "returned" /\ outcome \in {"removed-reloaded", "removed-reloaderr"})
       => /\ rulesFile = NoFile
          /\ execLog # <<>>
          /\ OneSequence(execLog)

\* Run returned after the removal and a complete reload.
C6_Witness ==
  /\ pc = "returned"
  /\ outcome = "removed-reloaded"
  /\ oldConfigContent # <<>>
  /\ AllOk(execLog)

C8_Original ==
  [][(stopCh /\ pc = "select" /\ pc' # pc) => pc' = "remove"]_vars

\* C8, amended: the first signal changes nothing of the loop's state, an
\* applyConfig in flight runs to its end, and a loop iteration that finds
\* the stop channel closed and no tick in ticker.C is the shutdown; with a
\* tick in ticker.C as well the select takes either case.
C8_StopServicedUnlessTickPending ==
  /\ [][(hpc = "wait1" /\ hpc' # hpc)
          => (stopCh' /\ UNCHANGED <<mainVars, tickerC, status>>)]_vars
  /\ [][(stopCh /\ InApply /\ pc' # pc) => pc' \in TickPcs \cup {"select"}]_vars
  /\ [][(stopCh /\ pc = "select" /\ ~tickerC /\ pc' # pc)
          => pc' = "remove"]_vars
  /\ [][(pc = "select" /\ pc' = "read") => (tickerC /\ ~tickerC')]_vars

\* A tick was started from the select although the stop channel was closed.
C8_Witness ==
  /\ stopCh
  /\ pc = "read"
  /\ outcome # "none"
  /\ status = "running"

\* C9: the first signal closes the stop channel and nothing else; the
\* second signal, wherever the main goroutine is, ends the process with
\* status 1, and nothing changes once the process has exited.
C9_SecondSignalExits ==
  /\ [][(hpc = "wait1" /\ hpc' # hpc)
          => (~stopCh /\ stopCh' /\ hpc' = "wait2" /\ status' = "running")]_vars
  /\ [][stopCh => stopCh']_vars
  /\ [][(hpc = "wait2" /\ hpc' # hpc) => status' = "exit1"]_vars
  /\ [][status # "running" => UNCHANGED vars]_vars
  /\ [](status = "exit1" => hpc = "exit")

\* The second signal ended the process between the removal and the end of
\* the shutdown's reload sequence.
C9_Witness ==
  /\ status = "exit1"
  /\ pc = "reload"
  /\ caller = "remove"
  /\ Len(execLog) = 1

\* C10: a tick whose read fails ends there: oldConfigContent and the rules
\* file are as before, no command was run, and the loop is back at its
\* select, where the next tick reads again.
C10_ReadFailureChangesNothing ==
  /\ [][(pc = "read" /\ pc' # pc /\ pc' # "compare")
          => /\ pc' = "select"
             /\ outcome' = "readerr"
             /\ oldConfigContent' = oldConfigContent
             /\ rulesFile' = rulesFile
             /\ execLog' = <<>>
             /\ ~wrote']_vars
  /\ [][(pc = "read" /\ configFile = NoFile /\ pc' # pc) => pc' = "select"]_vars
  /\ [][(pc = "select" /\ outcome = "readerr" /\ pc' # pc)
          => pc' \in {"read", "remove"}]_vars

\* The config file was deleted after an apply; the tick failed and the
\* applied rules file is still there.
C10_Witness ==
  /\ pc = "select"
  /\ outcome = "readerr"
  /\ configFile = NoFile
  /\ oldConfigContent # <<>>
  /\ rulesFile = File(Render(name, oldConfigContent))

\* C11: a failed writeRulesFile ends the tick: no command is run in it and
\* oldConfigContent is unchanged; the next tick, when it reads the same
\* config again, goes on to writeRulesFile again.
C11_WriteFailureRetried ==
  /\ [][(pc = "write" /\ pc' # pc /\ pc' # "reload")
          => /\ pc' = "select"
             /\ outcome' = "writeerr"
             /\ execLog' = <<>>
             /\ oldConfigContent' = oldConfigContent]_vars
  /\ [][(pc = "write" /\ pc' = "reload")
          => rulesFile' = File(Render(name, config))]_vars
  /\ [](outcome = "writeerr" /\ pc = "select" => (wrote /\ execLog = <<>>))
  /\ [][(rewrite /\ pc = "compare" /\ pc' # pc) => pc' = "write"]_vars

\* The tick after a failed write read the same config and is at the write
\* again, the rules file still being what the failed write left.
C11_Witness ==
  /\ rewrite
  /\ pc = "write"
  /\ outcome = "writeerr"
  /\ rulesFile # NoFile
  /\ rulesFile # File(Render(name, config))

InShutdown ==
  pc = "remove" \/ (pc = "reload" /\ caller = "remove") \/ pc = "returned"

\* C13: removeUdevFile is entered once, from the select with the stop
\* channel closed, and never again; from then on no step of applyConfig is
\* taken; a failed removal or a failed reload command ends with Run
\* returning; and once the stop channel is closed the process comes to its
\* end (Run returns, or the second signal exits).
C13_ShutdownOnceThenExit ==
  /\ [][(pc' = "remove" /\ pc # "remove")
          => (pc = "select" /\ stopCh /\ ~InShutdown)]_vars
  /\ [][InShutdown
          => /\ InShutdown'
             /\ (pc # "remove" => pc' # "remove")
             /\ oldConfigContent' = oldConfigContent
             /\ config' = config
             /\ (rulesFile' # rulesFile
                  => (pc = "remove" /\ rulesFile' = NoFile))
          ]_vars
  /\ [][(pc = "remove" /\ pc' # pc /\ rulesFile' = rulesFile)
          => pc' = "returned"]_vars
  /\ [][(pc = "reload" /\ caller = "remove" /\ Len(execLog') > Len(execLog)
           /\ ~execLog'[Len(execLog')].ok)
          => pc' = "returned"]_vars
  /\ (stopCh ~> (pc = "returned" \/ status = "exit1"))

\* Run has returned although the shutdown's removal failed, more than one
\* tick having run before it.
C13_Witness ==
  /\ pc = "returned"
  /\ status = "exit0"
  /\ outcome = "removeerr"
  /\ rulesFile # NoFile
  /\ oldConfigContent # <<>>

\* The vectors handed to Exec in the comparison below: the command table
\* and every non-empty vector of up to MaxCmpLen one-letter arguments.
SomeArgvs ==
  {commands[k] : k \in 1..Len(commands)} \cup (SeqsUpTo(MaxCmpLen) \ {<<>>})

\* argv is the nsenter prefix for /rootfs/proc followed by cmd, unchanged.
IsNsenterOf(argv, cmd) ==
  /\ Len(argv) = Len(cmd) + 3
  /\ argv[1] = "nsenter"
  /\ argv[2] = "--mount=/rootfs/proc/1/ns/mnt"
  /\ argv[3] = "--"
  /\ \A i \in 1..Len(cmd) : argv[i + 3] = cmd[i]

\* C14: the nsenter runner executes "nsenter --mount=<hostProcDir>/1/ns/mnt
\* --" followed by the vector it was given, element for element; the direct
\* runner executes the vector itself; and each Exec call of a reload
\* sequence is one execution: the log grows by one entry per call and holds
\* each command of the table at most once.
C14_RunnerArgv ==
  /\ [](\A cmd \in SomeArgvs :
          /\ IsNsenterOf(RunnerArgv("nsenter", cmd), cmd)
          /\ RunnerArgv("exec", cmd) = cmd)
  /\ [](\A i \in 1..Len(execLog) :
          /\ execLog[i].cmd = commands[i]
          /\ IF exec = "nsenter"
               THEN IsNsenterOf(execLog[i].argv, commands[i])
               ELSE execLog[i].argv = commands[i])
  /\ [][(pc = "reload" /\ pc' # "read" /\ pc' # "remove")
          => \/ execLog' = execLog
             \/ /\ Len(execLog') = Len(execLog) + 1
                /\ SubSeq(execLog', 1, Len(execLog)) = execLog
                /\ Len(execLog') = cmdIdx]_vars

\* A complete reload sequence was run through nsenter.
C14_Witness ==
  /\ exec = "nsenter"
  /\ AllOk(execLog)
  /\ execLog[3].argv =
       <<"nsenter", "--mount=/rootfs/proc/1/ns/mnt", "--",
         "udevadm", "settle", "--timeout=300">>

\* content is the template with rules between the block-device guard and
\* the storage-class guard, once, and nm in both symlink rules.
IsRendering(content, nm, rules) ==
  LET n == Len(rules) IN
    /\ Len(content) = n + 6
    /\ content[1] = TplHead
    /\ \A i \in 1..n : content[i + 1] = rules[i]
    /\ content[n + 2] = TplGuard
    /\ content[n + 3] = nm
    /\ content[n + 4] = TplSerial
    /\ content[n + 5] = nm
    /\ content[n + 6] = TplKernel

\* A write of this tick or of the last tick succeeded and nothing has
\* touched the file since.
WrittenByTick ==
  \/ pc = "update"
  \/ (pc = "reload" /\ caller = "apply")
  \/ (pc = "select" /\ outcome \in {"applied", "reloaderr"} /\ wrote)

\* C15: after a successful write the rules file holds exactly the template
\* with the tick's config bytes in the rules place and the name in both
\* symlink rules, whatever oldConfigContent is and whatever the file held
\* before.
C15_ArtifactIsRendering ==
  /\ \A c \in Configs : \A nm \in Names : IsRendering(Render(nm, c), nm, c)
  /\ WrittenByTick
       => /\ rulesFile # NoFile
          /\ IsRendering(rulesFile[1], name, config)

\* The same config was written a second time, over the file the first write
\* left, with a non-empty snapshot of another config.
C15_Witness ==
  /\ retry
  /\ pc = "update"
  /\ config # <<>>
  /\ oldConfigContent # <<>>
  /\ IsRendering(rulesFile[1], name, config)

\* The order of the steps of Run: from each position, the positions that
\* may follow it.
StepOrder ==
  {<<"start", "read">>, <<"select", "read">>,
   <<"read", "compare">>, <<"read", "select">>,
   <<"compare", "write">>, <<"compare", "select">>,
   <<"write", "reload">>, <<"write", "select">>,
   <<"reload", "update">>, <<"reload", "select">>, <<"reload", "returned">>,
   <<"update", "select">>,
   <<"select", "remove">>,
   <<"remove", "reload">>, <<"remove", "returned">>}

\* C16: the main goroutine moves through one tick in the order read,
\* compare, write, reload, update; a tick is started only from the start of
\* Run or from the select, and the removal only from the select, so nothing
\* starts while a write or a reload sequence is in progress; a reload
\* sequence belongs to one caller from its first command to its last, and
\* the first signal and the ticker leave the main goroutine where it is.
C16_StepsSequential ==
  /\ [][pc' # pc => <<pc, pc'>> \in StepOrder]_vars
  /\ [][(pc = "reload" /\ pc' = "reload") => caller' = caller]_vars
  /\ [][(pc = "reload" /\ pc' # pc)
          => pc' = (IF caller = "remove" THEN "returned"
                    ELSE IF AllOk(execLog') THEN "update" ELSE "select")]_vars
  /\ [][(pc' = "reload" /\ pc # "reload")
          => (execLog' = <<>> /\ cmdIdx' = 1
                /\ caller' = (IF pc = "write" THEN "apply" ELSE "remove"))]_vars
  /\ [][(tickerC' # tickerC \/ stopCh' # stopCh \/ configFile' # configFile)
          => (pc' = pc \/ (pc = "select" /\ pc' = "read"))]_vars
  /\ [](pc = "reload" => (OneSequence(execLog) /\ cmdIdx = Len(execLog) + 1))

\* The stop channel was closed and a tick became due while an apply was in
\* the middle of its reload sequence; the apply goes on.
C16_Witness ==
  /\ stopCh
  /\ tickerC
  /\ pc = "reload"
  /\ caller = "apply"
  /\ Len(execLog) = 2
  /\ status = "running"

\* C17: the first thing Run does is one applyConfig, whether or not the
\* stop channel is already closed; until that call has ended the main
\* goroutine is nowhere but in it, so neither the select nor the removal
\* comes before its end; every later tick is started from the select by a
\* tick of the ticker.
C17_ImmediateFirstTick ==
  /\ [][(pc = "start" /\ pc' # pc) => pc' = "read"]_vars
  /\ [][pc # "start" => pc' # "start"]_vars
  /\ [](outcome = "none" => (pc = "start" \/ InApply))
  /\ [][(outcome = "none" /\ outcome' # outcome)
          => (InApply /\ pc' = "select")]_vars
  /\ [][(pc' = "read" /\ pc \notin {"read", "start"})
          => (pc = "select" /\ tickerC /\ outcome # "none")]_vars

\* The stop channel is closed and a tick is due, and the first applyConfig
\* has run its write and its reload sequence and is about to finish.
C17_Witness ==
  /\ outcome = "none"
  /\ pc = "update"
  /\ stopCh
  /\ tickerC
  /\ AllOk(execLog)
  /\ status = "running"

\* C18 as stated, in the form a finite run refutes, for a non-empty c: a
\* tick that read c, the content the config file still holds, and ended
\* without error (nothing to do, or applied), no signal having arrived,
\* leaves oldConfigContent = c and the rules file the rendering of c. From
\* a state where this fails, with the config file staying at c and every
\* operation succeeding, each later tick detects no change, so the rules
\* file never becomes the rendering of c.
C18_Original ==
  (pc = "select" /\ outcome \in {"skipped", "applied"}
     /\ Running /\ ~stopCh
     /\ configFile = File(config)
     /\ oldConfigContent # <<>>)
    => /\ oldConfigContent = config
       /\ rulesFile = File(Render(name, config))

\* C19: as long as every read has returned no bytes, the rules file does
\* not exist, oldConfigContent is empty and the ticks have run no command
\* (the only commands such a daemon can run are those of its shutdown); each
\* such tick ends as "no change".
C19_EmptyConfigNeverApplied ==
  /\ [](onlyEmpty
          => /\ rulesFile = NoFile
             /\ oldConfigContent = <<>>
             /\ ~wrote
             /\ (execLog # <<>> => InShutdown)
             /\ pc \notin {"write", "update"}
             /\ (pc = "reload" => caller = "remove"))
  /\ [][(pc = "compare" /\ config = <<>> /\ oldConfigContent = <<>>
           /\ pc' # pc)
          => /\ pc' = "select"
             /\ outcome' = "skipped"
             /\ rulesFile' = rulesFile
             /\ execLog' = <<>>]_vars

\* The daemon has read an empty config file twice and skipped both ticks.
C19_Witness ==
  /\ onlyEmpty
  /\ pc = "select"
  /\ outcome = "skipped"
  /\ config = <<>>
  /\ ~tickerC
  /\ configFile = File(<<>>)
  /\ rulesFile = NoFile

====
